---- MODULE Spec2Model ----
(***************************************************************************)
(* Model of lighthouse-core/audits/installable-manifest.js: the audit that *)
(* turns a ManifestValues checklist into a pass/fail product.              *)
(*                                                                         *)
(* One evaluation of InstallableManifest.audit is a small process: it      *)
(* requests the checklist from the ManifestValues computed artifact,       *)
(* awaits it, selects the failures, appends the parse failure reason,      *)
(* summarises the checks and builds the product.  The checklist object is  *)
(* shared (memoised by the collaborator), so the model runs the audit      *)
(* several times on it.                                                    *)
(*                                                                         *)
(* JavaScript strings that the audit only copies are TLA+ strings; the     *)
(* explanation, which the audit assembles, is the sequence of its pieces.  *)
(***************************************************************************)
EXTENDS Integers, Sequences, FiniteSets, TLC

VARIABLES pc, cache, requestCount, thrown, rejection,
          failures, checks, result, prevResult, runs

vars == <<pc, cache, requestCount, thrown, rejection,
          failures, checks, result, prevResult, runs>>

(* ---------------- bounds of the model ---------------- *)

MaxLen == 3

MaxRuns == 2

(* ---------------- inputs ---------------- *)

\* the five gating ids, in the order of the source's array
bannerCheckIdsNoShortName ==
  <<"hasName", "hasStartUrl", "hasPWADisplayValue", "hasIconsAtLeast192px">>

bannerCheckIds ==
  <<"hasName", "hasShortName", "hasStartUrl", "hasPWADisplayValue",
    "hasIconsAtLeast192px">>

\* ids a checklist entry may carry: gating ids and an informational one
CheckIds ==
  {"hasName", "hasShortName", "hasStartUrl", "hasPWADisplayValue",
   "hasIconsAtLeast192px", "hasThemeColor"}

FailureTexts == {"text A", "text B"}

\* a passing check carries a text as well; the audit must never show it
PassingText == "text of a passing check"

Checks ==
  [id : CheckIds, passing : {FALSE}, failureText : FailureTexts]
    \cup [id : CheckIds, passing : {TRUE}, failureText : {PassingText}]

SeqsUpTo(S, n) == UNION {[1..k -> S] : k \in 0..n}

Undefined == "undefined"

ParseFailureReasons == {"No manifest was fetched"}

AllManifestValues ==
  [allChecks : SeqsUpTo(Checks, MaxLen), isParseFailure : {FALSE},
   parseFailureReason : {Undefined}]
    \cup [allChecks : SeqsUpTo(Checks, MaxLen), isParseFailure : {TRUE},
          parseFailureReason : ParseFailureReasons]

Errors == {"TypeError: manifest artifact", "Error: computation failed"}

NoManifestValues ==
  [allChecks |-> <<>>, isParseFailure |-> FALSE, parseFailureReason |-> Undefined]

NoResult == [none |-> TRUE]

NoError == "no error"

(* ---------------- pure functions of the audit ---------------- *)

\* Array.prototype.includes
Includes(arr, x) == \E i \in DOMAIN arr : arr[i] = x

\* Array.prototype.join, as the sequence of the pieces of the string
RECURSIVE Join(_, _)
Join(arr, sep) ==
  IF Len(arr) = 0 THEN <<>>
  ELSE IF Len(arr) = 1 THEN <<arr[1]>>
  ELSE <<arr[1], sep>> \o Join(Tail(arr), sep)

getManifestFailuresIgnorePassing(manifestValues) ==
  LET kept == SelectSeq(manifestValues.allChecks,
                        LAMBDA check : Includes(bannerCheckIds, check.id))
  IN  [i \in 1..Len(kept) |-> kept[i].failureText]

getManifestFailuresAllIds(manifestValues) ==
  LET kept == SelectSeq(manifestValues.allChecks,
                        LAMBDA check : ~check.passing)
  IN  [i \in 1..Len(kept) |-> kept[i].failureText]

\* allChecks.filter(...).map(check => check.failureText)
getManifestFailures(manifestValues) ==
  LET kept == SelectSeq(manifestValues.allChecks,
                        LAMBDA check : Includes(bannerCheckIds, check.id)
                                         /\ ~check.passing)
  IN  [i \in 1..Len(kept) |-> kept[i].failureText]

EmptyChecks == [id \in {} |-> TRUE]

\* checks[check.id] = check.passing
SetCheck(acc, check) ==
  [id \in DOMAIN acc \cup {check.id} |->
     IF id = check.id THEN check.passing ELSE acc[id]]

RECURSIVE ForEachCheck(_, _)
ForEachCheck(acc, allChecks) ==
  IF Len(allChecks) = 0 THEN acc
  ELSE ForEachCheck(SetCheck(acc, Head(allChecks)), Tail(allChecks))

RECURSIVE ForEachCheckFirstWins(_, _)
ForEachCheckFirstWins(acc, allChecks) ==
  IF Len(allChecks) = 0 THEN acc
  ELSE ForEachCheckFirstWins(
         IF Head(allChecks).id \in DOMAIN acc THEN acc
         ELSE SetCheck(acc, Head(allChecks)),
         Tail(allChecks))

getManifestChecksFirstWins(manifestValues) ==
  ForEachCheckFirstWins(EmptyChecks, manifestValues.allChecks)

getManifestChecks(manifestValues) ==
  ForEachCheck(EmptyChecks, manifestValues.allChecks)

PushParseFailureReasonFirst(fs, manifestValues) ==
  IF manifestValues.isParseFailure
  THEN <<manifestValues.parseFailureReason>> \o fs
  ELSE fs

\* if (manifestValues.isParseFailure) failures.push(parseFailureReason)
PushParseFailureReason(fs, manifestValues) ==
  IF manifestValues.isParseFailure
  THEN Append(fs, manifestValues.parseFailureReason)
  ELSE fs

DetailsBannerOnly(fs, cs) ==
  [items |-> <<[k \in {"failures"}
                    \cup {id \in DOMAIN cs : Includes(bannerCheckIds, id)} |->
                  IF k \in DOMAIN cs THEN cs[k] ELSE fs]>>]

\* {items: [{failures, ...checks}]}: the spread keys come last and win
Details(fs, cs) ==
  [items |-> <<[k \in {"failures"} \cup DOMAIN cs |->
                  IF k \in DOMAIN cs THEN cs[k] ELSE fs]>>]

Explanation(fs) == <<"Failures: ">> \o Join(fs, ",\n") \o <<".">>

ProductAlwaysExplains(fs, details) ==
  [rawValue |-> Len(fs) = 0, explanation |-> Explanation(fs),
   details |-> details]

\* the two return statements of audit
Product(fs, details) ==
  IF Len(fs) > 0
  THEN [rawValue |-> FALSE, explanation |-> Explanation(fs),
        details |-> details]
  ELSE [rawValue |-> TRUE, details |-> details]

PropagateWrapped(e) == "Error: installable-manifest audit failed"

\* an await of a rejected promise inside an async function without try/catch
Propagate(e) == e

\* the outcomes of ManifestValues.request: memoised per artifact
RequestOutcomes(c) ==
  IF c.state = "value" THEN {c.value} ELSE AllManifestValues

(* ---------------- the state machine ---------------- *)

Init ==
  /\ pc = "idle"
  /\ cache = [state |-> "empty", value |-> NoManifestValues]
  /\ requestCount = 0
  /\ thrown = NoError
  /\ rejection = NoError
  /\ failures = <<>>
  /\ checks = EmptyChecks
  /\ result = NoResult
  /\ prevResult = NoResult
  /\ runs = 0

\* audit() is called: ManifestValues.request(artifacts.Manifest, context)
Audit ==
  /\ pc \in {"idle", "done", "rejected"}
  /\ runs < MaxRuns
  /\ pc' = "awaiting"
  /\ runs' = runs + 1
  /\ requestCount' = 1
  /\ thrown' = NoError
  /\ rejection' = NoError
  /\ failures' = <<>>
  /\ checks' = EmptyChecks
  /\ prevResult' = result
  /\ result' = NoResult
  /\ UNCHANGED cache

\* the awaited promise resolves with the checklist
RequestResolve ==
  /\ pc = "awaiting"
  /\ \E mv \in RequestOutcomes(cache) :
       cache' = [state |-> "value", value |-> mv]
  /\ pc' = "selectFailures"
  /\ UNCHANGED <<requestCount, thrown, rejection, failures, checks, result,
                 prevResult, runs>>

\* the awaited promise rejects: audit's own promise rejects
RequestReject ==
  /\ pc = "awaiting"
  /\ cache.state = "empty"
  /\ \E e \in Errors :
       /\ thrown' = e
       /\ rejection' = Propagate(e)
  /\ pc' = "rejected"
  /\ UNCHANGED <<cache, requestCount, failures, checks, result, prevResult,
                 runs>>

\* const failures = InstallableManifest.getManifestFailures(manifestValues)
GetFailures ==
  /\ pc = "selectFailures"
  /\ failures' = getManifestFailures(cache.value)
  /\ pc' = "pushParseFailure"
  /\ UNCHANGED <<cache, requestCount, thrown, rejection, checks, result,
                 prevResult, runs>>

PushParseFailureShared ==
  /\ pc = "pushParseFailure"
  /\ failures' = PushParseFailureReason(failures, cache.value)
  /\ cache' =
       IF cache.value.isParseFailure /\ Len(cache.value.allChecks) < MaxLen
       THEN [cache EXCEPT !.value.allChecks =
               Append(@, [id |-> "hasName", passing |-> FALSE,
                          failureText |-> cache.value.parseFailureReason])]
       ELSE cache
  /\ pc' = "summarizeChecks"
  /\ UNCHANGED <<requestCount, thrown, rejection, checks, result,
                 prevResult, runs>>

\* the push goes to the array that filter/map built for this call
PushParseFailure ==
  /\ pc = "pushParseFailure"
  /\ failures' = PushParseFailureReason(failures, cache.value)
  /\ pc' = "summarizeChecks"
  /\ UNCHANGED <<cache, requestCount, thrown, rejection, checks, result,
                 prevResult, runs>>

GetChecksRequestsAgain ==
  /\ pc = "summarizeChecks"
  /\ checks' = getManifestChecks(cache.value)
  /\ requestCount' = requestCount + 1
  /\ pc' = "return"
  /\ UNCHANGED <<cache, thrown, rejection, failures, result, prevResult,
                 runs>>

\* const checks = this.getManifestChecks(manifestValues)
GetChecks ==
  /\ pc = "summarizeChecks"
  /\ checks' = getManifestChecks(cache.value)
  /\ pc' = "return"
  /\ UNCHANGED <<cache, requestCount, thrown, rejection, failures, result,
                 prevResult, runs>>

\* const details = ...; return {rawValue, explanation?, details}
Return ==
  /\ pc = "return"
  /\ result' = Product(failures, Details(failures, checks))
  /\ pc' = "done"
  /\ UNCHANGED <<cache, requestCount, thrown, rejection, failures, checks,
                 prevResult, runs>>

Next ==
  \/ Audit
  \/ RequestResolve
  \/ RequestReject
  \/ GetFailures
  \/ PushParseFailure
  \/ GetChecks
  \/ Return

Spec == Init /\ [][Next]_vars

(* ---------------- vocabulary of the properties ---------------- *)

RequiredCheckSet ==
  {"hasName", "hasShortName", "hasStartUrl", "hasPWADisplayValue",
   "hasIconsAtLeast192px"}

\* positions of the checklist entries that gate the verdict and fail
FailingRequired(allChecks) ==
  {i \in DOMAIN allChecks :
     allChecks[i].id \in RequiredCheckSet /\ ~allChecks[i].passing}

\* the k-th smallest position of a set of positions
KthOf(S, k) == CHOOSE i \in S : Cardinality({j \in S : j < i}) = k - 1

LastWith(allChecks, id) ==
  CHOOSE i \in DOMAIN allChecks :
    /\ allChecks[i].id = id
    /\ \A j \in DOMAIN allChecks : allChecks[j].id = id => j <= i

IdsOf(allChecks) == {allChecks[i].id : i \in DOMAIN allChecks}

ParseCount(mv) == IF mv.isParseFailure THEN 1 ELSE 0

Produced == pc = "done"

Item == result.details.items[1]

failureMessages == Item["failures"]

checkResults == [id \in DOMAIN Item \ {"failures"} |-> Item[id]]

(* ---------------- C1 ---------------- *)

\* C1: when no entry with a required id fails and isParseFailure is false
\* (required ids may be missing, informational checks may fail), the product
\* has rawValue = true and an empty failures sequence.
C1_AllRequiredPassing ==
  (Produced /\ FailingRequired(cache.value.allChecks) = {}
            /\ ~cache.value.isParseFailure)
    => (result.rawValue = TRUE /\ failureMessages = <<>>)

C1_Witness ==
  /\ Produced
  /\ result.rawValue = TRUE
  /\ ~cache.value.isParseFailure
  /\ \E i \in DOMAIN cache.value.allChecks :
       cache.value.allChecks[i].id = "hasThemeColor"
         /\ ~cache.value.allChecks[i].passing
  /\ \E i \in DOMAIN cache.value.allChecks :
       cache.value.allChecks[i].id = "hasName"
  /\ "hasShortName" \notin IdsOf(cache.value.allChecks)

(* ---------------- C2 ---------------- *)

\* C2: when some entry with a required id fails, rawValue is false and the
\* failure texts of the failing required entries open the failures sequence,
\* one element per entry, in checklist order.
C2_FailuresInChecklistOrder ==
  LET all == cache.value.allChecks
      F == FailingRequired(all)
  IN  (Produced /\ F # {})
        => /\ result.rawValue = FALSE
           /\ Len(failureMessages) = Cardinality(F) + ParseCount(cache.value)
           /\ \A k \in 1..Cardinality(F) :
                failureMessages[k] = all[KthOf(F, k)].failureText

C2_Witness ==
  /\ Produced
  /\ Len(cache.value.allChecks) = 3
  /\ cache.value.allChecks[1].id = "hasIconsAtLeast192px"
  /\ cache.value.allChecks[2].id = "hasThemeColor"
  /\ cache.value.allChecks[3].id = "hasName"
  /\ \A i \in 1..3 : ~cache.value.allChecks[i].passing
  /\ cache.value.allChecks[1].failureText = "text B"
  /\ cache.value.allChecks[3].failureText = "text A"
  /\ ~cache.value.isParseFailure
  /\ failureMessages = <<"text B", "text A">>
  /\ result.rawValue = FALSE

(* ---------------- C3 ---------------- *)

\* the part of C3 about the verdict: only required failing entries (and the
\* parse failure) count
C3_VerdictIgnoresOthers ==
  LET F == FailingRequired(cache.value.allChecks)
  IN  /\ Len(failureMessages) = Cardinality(F) + ParseCount(cache.value)
      /\ result.rawValue = (F = {} /\ ~cache.value.isParseFailure)

\* C3 as stated: a check with a non-required id adds no failure message and
\* does not change rawValue, and its id is in checkResults with the passing
\* value of that very check.
C3_Original ==
  Produced =>
    /\ C3_VerdictIgnoresOthers
    /\ \A i \in DOMAIN cache.value.allChecks :
         cache.value.allChecks[i].id \notin RequiredCheckSet
           => /\ cache.value.allChecks[i].id \in DOMAIN checkResults
              /\ checkResults[cache.value.allChecks[i].id]
                   = cache.value.allChecks[i].passing

\* C3 amended: a check with a non-required id adds no failure message and
\* does not change rawValue, and its id is in checkResults with the passing
\* value of the last checklist entry that carries that id.
C3_NonRequiredOnlyReported ==
  Produced =>
    /\ C3_VerdictIgnoresOthers
    /\ \A i \in DOMAIN cache.value.allChecks :
         cache.value.allChecks[i].id \notin RequiredCheckSet
           => /\ cache.value.allChecks[i].id \in DOMAIN checkResults
              /\ checkResults[cache.value.allChecks[i].id]
                   = cache.value.allChecks[
                       LastWith(cache.value.allChecks,
                                cache.value.allChecks[i].id)].passing

C3_Witness ==
  /\ Produced
  /\ Len(cache.value.allChecks) = 2
  /\ cache.value.allChecks[1].id = "hasThemeColor"
  /\ ~cache.value.allChecks[1].passing
  /\ cache.value.allChecks[2].id = "hasName"
  /\ cache.value.allChecks[2].passing
  /\ ~cache.value.isParseFailure
  /\ result.rawValue = TRUE
  /\ failureMessages = <<>>
  /\ checkResults["hasThemeColor"] = FALSE

(* ---------------- C4 ---------------- *)

\* C4: with isParseFailure = true the audit is not rejected, and its product
\* has rawValue = false and parseFailureReason as the last failure message,
\* after the texts of all failing required entries; an empty checklist gives
\* exactly [parseFailureReason] and no check results.
C4_ParseFailureLast ==
  LET mv == cache.value
      F == FailingRequired(mv.allChecks)
  IN  (cache.state = "value" /\ mv.isParseFailure)
        => /\ pc # "rejected"
           /\ rejection = NoError
           /\ Produced =>
                /\ result.rawValue = FALSE
                /\ Len(failureMessages) = Cardinality(F) + 1
                /\ failureMessages[Len(failureMessages)]
                     = mv.parseFailureReason
                /\ \A k \in 1..Cardinality(F) :
                     failureMessages[k] = mv.allChecks[KthOf(F, k)].failureText
                /\ mv.allChecks = <<>>
                     => /\ failureMessages = <<mv.parseFailureReason>>
                        /\ DOMAIN checkResults = {}

C4_Witness ==
  /\ Produced
  /\ cache.value.isParseFailure
  /\ Cardinality(FailingRequired(cache.value.allChecks)) = 2
  /\ Len(failureMessages) = 3
  /\ failureMessages[3] = "No manifest was fetched"

(* ---------------- C5 ---------------- *)

\* C5: in every product the failures sequence is non-empty exactly when
\* rawValue is false, and the explanation field exists exactly when rawValue
\* is false.
C5_FailuresIffNotPassed ==
  Produced =>
    /\ (Len(failureMessages) > 0) <=> (result.rawValue = FALSE)
    /\ ("explanation" \in DOMAIN result) <=> (result.rawValue = FALSE)

C5_Witness ==
  /\ Produced
  /\ result.rawValue = TRUE
  /\ "explanation" \notin DOMAIN result
  /\ Len(cache.value.allChecks) = 3
  /\ prevResult # NoResult
  /\ "explanation" \notin DOMAIN prevResult

(* ---------------- C6 ---------------- *)

\* C6: the mapping getManifestChecks returns has exactly the ids of the
\* checklist as keys, each with the passing value of the last entry that
\* carries the id.
C6_ChecksLastWins ==
  pc \in {"return", "done"} =>
    /\ DOMAIN checks = IdsOf(cache.value.allChecks)
    /\ \A id \in DOMAIN checks :
         checks[id]
           = cache.value.allChecks[LastWith(cache.value.allChecks, id)].passing

C6_Witness ==
  /\ pc = "return"
  /\ Len(cache.value.allChecks) = 3
  /\ cache.value.allChecks[1].id = "hasName"
  /\ ~cache.value.allChecks[1].passing
  /\ cache.value.allChecks[2].id = "hasThemeColor"
  /\ cache.value.allChecks[3].id = "hasName"
  /\ cache.value.allChecks[3].passing
  /\ checks["hasName"] = TRUE
  /\ DOMAIN checks = {"hasName", "hasThemeColor"}

(* ---------------- C7 ---------------- *)

\* C7: details.items has exactly one object; its failures field is the
\* failures sequence of the evaluation, parse failure reason included, and
\* every id of the check summary is a field of it with the summary's value.
C7_DetailsItem ==
  Produced =>
    /\ Len(result.details.items) = 1
    /\ DOMAIN result = IF result.rawValue
                       THEN {"rawValue", "details"}
                       ELSE {"rawValue", "explanation", "details"}
    /\ Item["failures"] = failures
    /\ cache.value.isParseFailure
         => /\ Len(Item["failures"]) > 0
            /\ Item["failures"][Len(Item["failures"])]
                 = cache.value.parseFailureReason
    /\ DOMAIN Item = {"failures"} \cup IdsOf(cache.value.allChecks)
    /\ \A id \in DOMAIN checks : Item[id] = checks[id]

C7_Witness ==
  /\ Produced
  /\ cache.value.isParseFailure
  /\ DOMAIN Item = {"failures", "hasThemeColor", "hasStartUrl"}
  /\ Item["hasThemeColor"] = FALSE
  /\ Item["hasStartUrl"] = TRUE
  /\ Item["failures"] = <<"No manifest was fetched">>

(* ---------------- C8 ---------------- *)

\* C8: when ManifestValues.request fails, audit fails with that same error,
\* builds no product, and has called the collaborator only once.
C8_RejectionPropagates ==
  pc = "rejected" =>
    /\ thrown \in Errors
    /\ rejection = thrown
    /\ result = NoResult
    /\ failures = <<>>
    /\ requestCount = 1

C8_Witness ==
  /\ pc = "rejected"
  /\ thrown = "TypeError: manifest artifact"
  /\ rejection = "TypeError: manifest artifact"

(* ---------------- C9 ---------------- *)

\* C9: an evaluation calls the collaborator exactly once, and nothing is
\* selected, summarised or built until the call's result has arrived.
C9_OneRequestAwaited ==
  /\ requestCount <= 1
  /\ pc # "idle" => requestCount = 1
  /\ pc \in {"idle", "awaiting"}
       => /\ failures = <<>>
          /\ checks = EmptyChecks
          /\ result = NoResult
  /\ pc \in {"selectFailures", "pushParseFailure", "summarizeChecks",
             "return", "done"}
       => cache.state = "value"

C9_Witness ==
  /\ Produced
  /\ runs = 2
  /\ requestCount = 1
  /\ Len(failures) = 2
  /\ DOMAIN checks # {}

(* ---------------- C10 ---------------- *)

\* C10: no step of the audit changes the checklist once the collaborator has
\* produced it, and every later evaluation of that checklist returns the
\* product the evaluation before it returned.
C10_ChecklistUntouched ==
  [][/\ cache.state = "value" => cache' = cache
     /\ (pc' = "done" /\ prevResult' # NoResult) => result' = prevResult']_vars

C10_Witness ==
  /\ Produced
  /\ runs = 2
  /\ prevResult # NoResult
  /\ result = prevResult
  /\ cache.value.isParseFailure
  /\ Len(failureMessages) = 2

====
